---- MODULE Spec2Model ----
(***************************************************************************)
(* State-machine model of app.py: the Flask handler analyze() behind       *)
(* POST /analyze, with its helpers save_base64_image_to_tempfile,          *)
(* call_gemini_api and call_openai_chat.  One behaviour is one process     *)
(* configuration (the three environment variables read at import time)     *)
(* handling one request, in four steps that follow the handler's text:     *)
(* Gate (110-112), Normalize (113-123), LoadImage (124-132) and Dispatch   *)
(* (133-155, the finally block included).                                  *)
(*                                                                         *)
(* Python values are tagged records; str values carry a tuple of           *)
(* one-character strings so that upper(), split() and b64decode() are      *)
(* computed character by character.                                        *)
(***************************************************************************)
EXTENDS Integers, Sequences, FiniteSets, TLC

\* ---------------------------------------------------------------- bounds
\* Largest number of occurrences of the marker "base64," in an image string.
MaxMarkers == 2

\* ---------------------------------------------------------------- values
None == [t |-> "none"]
Absent == [t |-> "absent"]
Unset == [t |-> "unset"]
Str(s) == [t |-> "str", v |-> s]
Num(n) == [t |-> "num", v |-> n]
Bytes(b) == [t |-> "bytes", v |-> b]
List(n) == [t |-> "list", n |-> n]
Path(n) == [t |-> "path", n |-> n]
Invalid == [t |-> "invalid"]
Obj(u, m, x, i) == [t |-> "obj", user_id |-> u, mode |-> m, message_text |-> x, image_base64 |-> i]

\* Python truth value of a value ("if x:", "if not x:").
Truthy(x) ==
    CASE x.t = "none" -> FALSE
      [] x.t = "str" -> x.v # <<>>
      [] x.t = "bytes" -> x.v # <<>>
      [] x.t = "num" -> x.v # 0
      [] x.t = "list" -> x.n # 0
      [] x.t = "path" -> TRUE
      [] x.t = "obj" -> ~(x.user_id = Absent /\ x.mode = Absent /\ x.message_text = Absent /\ x.image_base64 = Absent)
      [] OTHER -> FALSE

\* dict.get(key, default) on the field already selected from the body.
Get(field, default) == IF field = Absent THEN default ELSE field

\* ------------------------------------------------------- string literals
devsecret == <<"d", "e", "v", "s", "e", "c", "r", "e", "t">>
auto == <<"a", "u", "t", "o">>
header_sep == <<"b", "a", "s", "e", "6", "4", ",">>
ModePrefix == <<"[", "M", "O", "D", "E", ":", " ">>
ModeSuffix == <<"]", "\n", "\n">>

\* ---------------------------------------------------------- str methods
\* str.upper() on one character, for the characters the model uses.
UpperChar(c) ==
    CASE c = "a" -> "A" [] c = "u" -> "U" [] c = "t" -> "T" [] c = "o" -> "O"
      [] c = "s" -> "S" [] c = "m" -> "M" [] c = "h" -> "H" [] c = "i" -> "I"
      [] OTHER -> c

Upper(s) == [k \in 1..Len(s) |-> UpperChar(s[k])]

\* TRUE iff sep occurs in s starting at position k.
OccursAt(s, sep, k) ==
    /\ k + Len(sep) - 1 <= Len(s)
    /\ \A j \in 1..Len(sep) : s[k + j - 1] = sep[j]

\* str.find, 1-based: position of the first occurrence of sep in s, 0 if none.
Find(s, sep) ==
    LET hits == {k \in 1..Len(s) : OccursAt(s, sep, k)}
    IN IF hits = {} THEN 0 ELSE CHOOSE k \in hits : \A h \in hits : k <= h

\* "sep in s"
Contains(s, sep) == Find(s, sep) # 0

\* str.split(sep): the pieces between the non-overlapping occurrences of sep,
\* scanned left to right.
RECURSIVE Split(_, _)
Split(s, sep) ==
    LET k == Find(s, sep)
    IN IF k = 0 THEN <<s>>
       ELSE <<SubSeq(s, 1, k - 1)>> \o Split(SubSeq(s, k + Len(sep), Len(s)), sep)

\* ------------------------------------------------------ base64.b64decode
\* The base64 alphabet; a character's value is its position minus one.
B64Alphabet ==
    <<"A", "B", "C", "D", "E", "F", "G", "H", "I", "J", "K", "L", "M",
      "N", "O", "P", "Q", "R", "S", "T", "U", "V", "W", "X", "Y", "Z",
      "a", "b", "c", "d", "e", "f", "g", "h", "i", "j", "k", "l", "m",
      "n", "o", "p", "q", "r", "s", "t", "u", "v", "w", "x", "y", "z",
      "0", "1", "2", "3", "4", "5", "6", "7", "8", "9", "+", "/">>

InAlphabet(c) == \E k \in 1..Len(B64Alphabet) : B64Alphabet[k] = c

B64Val(c) == (CHOOSE k \in 1..Len(B64Alphabet) : B64Alphabet[k] = c) - 1

\* binascii.a2b_base64 in its default, non-strict mode, as b64decode calls it:
\* characters outside the alphabet are skipped, "=" ends the input once it
\* completes a quad, and data left in an open quad is an error.
RECURSIVE A2B(_, _, _, _, _, _)
A2B(s, k, quad_pos, leftchar, pads, out) ==
    IF k > Len(s) THEN [ok |-> quad_pos = 0, bytes |-> out]
    ELSE IF s[k] = "=" THEN
        IF quad_pos >= 2 /\ quad_pos + pads + 1 >= 4 THEN [ok |-> TRUE, bytes |-> out]
        ELSE A2B(s, k + 1, quad_pos, leftchar, IF quad_pos >= 2 THEN pads + 1 ELSE pads, out)
    ELSE IF ~InAlphabet(s[k]) THEN A2B(s, k + 1, quad_pos, leftchar, pads, out)
    ELSE LET c == B64Val(s[k]) IN
        CASE quad_pos = 0 -> A2B(s, k + 1, 1, c, 0, out)
          [] quad_pos = 1 -> A2B(s, k + 1, 2, c % 16, 0, Append(out, leftchar * 4 + c \div 16))
          [] quad_pos = 2 -> A2B(s, k + 1, 3, c % 4, 0, Append(out, leftchar * 16 + c \div 4))
          [] OTHER -> A2B(s, k + 1, 0, 0, 0, Append(out, leftchar * 64 + c))

b64decode(s) == A2B(s, 1, 0, 0, 0, <<>>)

\* ------------------------------------------ save_base64_image_to_tempfile
\* The string handed to base64.b64decode (lines 27-30).
DecoderInput(image_b64) ==
    IF Contains(image_b64, header_sep) THEN Split(image_b64, header_sep)[2] ELSE image_b64

\* Faults of the file system while the image is stored and read back.
IoFaults == {"none", "create", "write", "read"}

\* Outcome of save_base64_image_to_tempfile(image_b64) under fault f:
\* raised - an exception left the function; created - the temporary file
\* exists afterwards (delete=False); arg - what b64decode was called with;
\* decodeError - b64decode raised.
SaveImage(image_b64, f) ==
    IF image_b64.t # "str"
    THEN [raised |-> TRUE, created |-> FALSE, arg |-> Unset, decodeError |-> FALSE, bytes |-> <<>>]
    ELSE LET arg == DecoderInput(image_b64.v)
             dec == b64decode(arg)
         IN IF ~dec.ok THEN [raised |-> TRUE, created |-> FALSE, arg |-> Str(arg), decodeError |-> TRUE, bytes |-> <<>>]
            ELSE IF f = "create" THEN [raised |-> TRUE, created |-> FALSE, arg |-> Str(arg), decodeError |-> FALSE, bytes |-> <<>>]
            ELSE IF f = "write" THEN [raised |-> TRUE, created |-> TRUE, arg |-> Str(arg), decodeError |-> FALSE, bytes |-> <<>>]
            ELSE [raised |-> FALSE, created |-> TRUE, arg |-> Str(arg), decodeError |-> FALSE, bytes |-> dec.bytes]

\* ------------------------------------------------------ provider calls
\* What the Gemini SDK can do on one call: the import fails (44-45), the file
\* upload raises (54), generate_content raises (66/68), or a reply comes back.
GeminiOutcomes == {"sdk_missing", "upload_error", "generate_error", "ok"}

\* What the chat-completions request can do: requests.post or
\* raise_for_status raises (97-98), or a body comes back.
OpenAIOutcomes == {"http_error", "ok"}

\* Outcome of call_gemini_api(payload_text, image_bytes) under outcome o:
\* raised - an exception left the function; created - the second temporary
\* file (line 49, delete=False) was made; it is never removed (56-57).
call_gemini_api(key, image_bytes, o) ==
    IF ~Truthy(key) THEN [raised |-> TRUE, created |-> FALSE]
    ELSE IF o = "sdk_missing" THEN [raised |-> TRUE, created |-> FALSE]
    ELSE IF Truthy(image_bytes) /\ o = "upload_error" THEN [raised |-> TRUE, created |-> TRUE]
    ELSE [raised |-> o = "generate_error", created |-> Truthy(image_bytes)]

\* Outcome of call_openai_chat(system_prompt, user_text) under outcome o.
call_openai_chat(key, o) ==
    IF ~Truthy(key) THEN [raised |-> TRUE, created |-> FALSE]
    ELSE [raised |-> o = "http_error", created |-> FALSE]

\* Mutant of Provider: the two credentials are tested in the other order.
Provider_OpenAIFirst(gemini_key, openai_key) ==
    IF Truthy(openai_key) THEN "openai"
    ELSE IF Truthy(gemini_key) THEN "gemini"
    ELSE "none"

\* The provider the dispatcher calls (134-141).
Provider(gemini_key, openai_key) ==
    IF Truthy(gemini_key) THEN "gemini"
    ELSE IF Truthy(openai_key) THEN "openai"
    ELSE "none"

\* ------------------------------------------------------------ the gate
\* Mutant of GateRejects: a request without the header is let through.
GateRejects_MissingHeaderPasses(secret, client_secret) ==
    secret # Str(devsecret) /\ client_secret # None /\ client_secret # secret

\* Mutant of GateRejects: the default secret is compared like any other.
GateRejects_NoDefaultBypass(secret, client_secret) ==
    client_secret # secret

\* The condition of line 111.
GateRejects(secret, client_secret) ==
    secret # Str(devsecret) /\ client_secret # secret

\* ------------------------------------------------------- the normalizer
\* Mutant of UserText: the mode is compared with "auto" ignoring case.
UserText_IgnoreCase(mode, text) ==
    IF Upper(mode.v) # Upper(auto)
    THEN Str(ModePrefix \o Upper(mode.v) \o ModeSuffix \o text.v)
    ELSE text

\* Lines 120-123: the text handed on to the provider.  mode is a str here.
UserText(mode, text) ==
    IF mode # Str(auto)
    THEN Str(ModePrefix \o Upper(mode.v) \o ModeSuffix \o text.v)
    ELSE text

\* ------------------------------------------------------------ responses
NoResponse == [code |-> 0, envelope |-> FALSE, status |-> "", message |-> "", used_provider |-> ""]
\* jsonify({"status": "error", "message": m, ...}), code
Error(code, m) == [code |-> code, envelope |-> TRUE, status |-> "error", message |-> m, used_provider |-> ""]
\* jsonify({"status": "ok", ..., "meta": {"used_provider": used}}) (150-155)
Ok(used) == [code |-> 200, envelope |-> TRUE, status |-> "ok", message |-> "", used_provider |-> used]
\* An exception that leaves analyze(): Flask answers it itself, with an HTML
\* page and the exception's code (400 for BadRequest, 500 for anything else).
Unhandled(code) == [code |-> code, envelope |-> FALSE, status |-> "", message |-> "", used_provider |-> ""]

\* --------------------------------------------------------------- inputs
s3cret == <<"k", "1">>
\* BACKEND_SECRET: unset (the default), set to the empty string, or set.
Secrets == {Str(devsecret), Str(<<>>), Str(s3cret)}
\* x-backend-secret: missing, empty, the configured value, another value.
Headers == {None, Str(<<>>), Str(s3cret), Str(<<"x">>)}
\* GEMINI_API_KEY: unset, empty, set.  OPENAI_API_KEY: unset, set.
GeminiKeys == {None, Str(<<>>), Str(<<"g">>)}
OpenAIKeys == {None, Str(<<"o">>)}

UserIds == {Absent, Str(<<"u">>)}
Modes == {Absent, None, Num(5), Str(auto), Str(<<"A", "U", "T", "O">>), Str(<<"s", "u", "m">>)}
Texts == {Absent, Str(<<"h", "i">>)}

\* Pieces of an image string: nothing, one padded quad ("QQ==" is b"A"),
\* and a lone data character, which b64decode refuses.
Segments == {<<>>, <<"Q", "Q", "=", "=">>, <<"Q">>}

\* The strings with exactly k occurrences of the marker.
RECURSIVE WithMarkers(_)
WithMarkers(k) ==
    IF k = 0 THEN Segments
    ELSE {p \o header_sep \o q : p \in WithMarkers(k - 1), q \in Segments}

ImageStrings == UNION {WithMarkers(k) : k \in 0..MaxMarkers}
Images == {Absent, None, Num(5)} \cup {Str(i) : i \in ImageStrings}

\* request.get_json(force=True) either raises BadRequest (no body, or a body
\* that is not JSON) or returns the parsed value.
Bodies ==
    {Invalid, None, List(0), List(1), Str(<<"x">>)}
    \cup {Obj(Absent, m, x, i) : m \in Modes, x \in Texts, i \in Images}
    \cup {Obj(u, Absent, Absent, Absent) : u \in UserIds}

\* ---------------------------------------------------------------- state
VARIABLES
    BACKEND_SECRET, GEMINI_API_KEY, OPENAI_API_KEY, \* module globals (13-15)
    pc,               \* where the handler is
    client_secret,    \* line 110
    data,             \* line 113
    mode, text, image_b64, user_text,  \* lines 117-123
    temp_image_path, image_bytes,      \* lines 124-130
    fs,               \* the temporary files that exist
    created,          \* the temporary files this request made, and who made them
    decoder,          \* what base64.b64decode was called with, and whether it raised
    calls,            \* how often each provider function was called, and with what text
    removed,          \* how often os.remove succeeded, and how often it raised
    response          \* what the client receives

config == <<BACKEND_SECRET, GEMINI_API_KEY, OPENAI_API_KEY>>
locals == <<client_secret, data, mode, text, image_b64, user_text, temp_image_path, image_bytes>>
effects == <<fs, created, decoder, calls, removed>>
vars == <<config, pc, locals, effects, response>>

\* A name tempfile has not handed out yet.
FreshPath == Path(Cardinality(created) + 1)

Init ==
    /\ BACKEND_SECRET \in Secrets
    /\ GEMINI_API_KEY \in GeminiKeys
    /\ OPENAI_API_KEY \in OpenAIKeys
    /\ pc = "gate"
    /\ client_secret = Unset /\ data = Unset
    /\ mode = Unset /\ text = Unset /\ image_b64 = Unset /\ user_text = Unset
    /\ temp_image_path = Unset /\ image_bytes = Unset
    /\ fs = {} /\ created = {}
    /\ decoder = [arg |-> Unset, error |-> FALSE]
    /\ calls = [gemini |-> 0, openai |-> 0, text |-> Unset]
    /\ removed = [ok |-> 0, failed |-> 0]
    /\ response = NoResponse

\* Lines 110-112.
Gate ==
    /\ pc = "gate"
    /\ \E h \in Headers :
        /\ client_secret' = h
        /\ IF GateRejects(BACKEND_SECRET, h)
           THEN response' = Error(401, "unauthorized") /\ pc' = "done"
           ELSE response' = response /\ pc' = "normalize"
    /\ UNCHANGED <<config, data, mode, text, image_b64, user_text, temp_image_path, image_bytes, effects>>

\* Lines 113-123.  BadRequest from get_json and AttributeError from
\* data.get / mode.upper are caught nowhere in the handler.
Normalize ==
    /\ pc = "normalize"
    /\ \E b \in Bodies :
        /\ data' = b
        /\ IF b = Invalid THEN
              /\ response' = Unhandled(400) /\ pc' = "done"
              /\ UNCHANGED <<mode, text, image_b64, user_text>>
           ELSE IF ~Truthy(b) THEN
              /\ response' = Error(400, "invalid json payload") /\ pc' = "done"
              /\ UNCHANGED <<mode, text, image_b64, user_text>>
           ELSE IF b.t # "obj" THEN
              /\ response' = Unhandled(500) /\ pc' = "done"
              /\ UNCHANGED <<mode, text, image_b64, user_text>>
           ELSE
              /\ mode' = Get(b.mode, Str(auto))
              /\ text' = Get(b.message_text, Str(<<>>))
              /\ image_b64' = Get(b.image_base64, None)
              /\ IF mode' # Str(auto) /\ mode'.t # "str"
                 THEN response' = Unhandled(500) /\ pc' = "done" /\ user_text' = user_text
                 ELSE response' = response /\ pc' = "image" /\ user_text' = UserText(mode', text')
    /\ UNCHANGED <<config, client_secret, temp_image_path, image_bytes, effects>>

\* Lines 124-132.  Reading the file back returns what was written to it.
LoadImage ==
    /\ pc = "image"
    /\ IF ~Truthy(image_b64) THEN
          /\ temp_image_path' = None /\ image_bytes' = None
          /\ pc' = "dispatch"
          /\ UNCHANGED <<fs, created, decoder, response>>
       ELSE \E f \in IoFaults :
          LET r == SaveImage(image_b64, f) IN
          /\ decoder' = [arg |-> r.arg, error |-> r.decodeError]
          /\ fs' = IF r.created THEN fs \cup {FreshPath} ELSE fs
          /\ created' = IF r.created THEN created \cup {[path |-> FreshPath, by |-> "normalizer"]} ELSE created
          /\ temp_image_path' = IF r.raised THEN None ELSE FreshPath
          /\ IF r.raised \/ f = "read"
             THEN /\ image_bytes' = None
                  /\ response' = Error(400, "bad image base64") /\ pc' = "done"
             ELSE /\ image_bytes' = Bytes(r.bytes)
                  /\ response' = response /\ pc' = "dispatch"
    /\ UNCHANGED <<config, client_secret, data, mode, text, image_b64, user_text, calls, removed>>

\* Lines 144-149: the files left once the finally block has run.
Cleanup(path, files, fails) ==
    IF Truthy(path) /\ ~fails THEN files \ {path} ELSE files

\* Lines 133-155: the provider call, the finally block and the reply.  The
\* reply text is whatever the provider sent and is not modelled.
Dispatch ==
    /\ pc = "dispatch"
    /\ \E g \in GeminiOutcomes, o \in OpenAIOutcomes, fails \in BOOLEAN :
        LET p == Provider(GEMINI_API_KEY, OPENAI_API_KEY)
            r == IF p = "gemini" THEN call_gemini_api(GEMINI_API_KEY, image_bytes, g)
                 ELSE IF p = "openai" THEN call_openai_chat(OPENAI_API_KEY, o)
                 ELSE [raised |-> FALSE, created |-> FALSE]
            called == IF r.created THEN fs \cup {FreshPath} ELSE fs
        IN
        /\ calls' = [gemini |-> calls.gemini + (IF p = "gemini" THEN 1 ELSE 0),
                     openai |-> calls.openai + (IF p = "openai" THEN 1 ELSE 0),
                     text |-> IF p = "none" THEN calls.text ELSE user_text]
        /\ created' = IF r.created THEN created \cup {[path |-> FreshPath, by |-> "gemini"]} ELSE created
        /\ fs' = Cleanup(temp_image_path, called, fails)
        /\ removed' = IF ~Truthy(temp_image_path) THEN removed
                      ELSE IF fails THEN [removed EXCEPT !.failed = @ + 1]
                      ELSE [removed EXCEPT !.ok = @ + 1]
        /\ response' =
             IF p = "none"
             THEN Error(500, "No AI provider configured. Set GEMINI_API_KEY or OPENAI_API_KEY on the server.")
             ELSE IF r.raised THEN Error(500, "AI provider error")
             ELSE Ok(p)
        /\ pc' = "done"
    /\ UNCHANGED <<config, locals, decoder>>

Next == Gate \/ Normalize \/ LoadImage \/ Dispatch

Spec == Init /\ [][Next]_vars

\* =================================================================== claims
\* The handler has returned.
Returned == pc = "done"
\* The handler has returned and the try block of line 133 was entered.
Dispatched == Returned /\ temp_image_path # Unset /\ response.code # 400
\* The files the normalizer / any step of this request made.
NormalizerFiles == {c.path : c \in {d \in created : d.by = "normalizer"}}
RequestFiles == {c.path : c \in created}
\* Everything after the first occurrence of the marker (the whole string if
\* the marker does not occur).
AfterFirstMarker(s) ==
    LET k == Find(s, header_sep)
    IN IF k = 0 THEN s ELSE SubSeq(s, k + Len(header_sep), Len(s))
\* A field of the request envelope: left out, or a string.
EnvelopeField(f) == f = Absent \/ f.t = "str"

\* C1: once the gate has read the header, if the configured secret is not the
\* default and the header is missing or differs from it, the handler has
\* returned HTTP 401 with an envelope whose status is "error".
C1_MismatchIs401 ==
    (client_secret # Unset /\ BACKEND_SECRET # Str(devsecret) /\ client_secret # BACKEND_SECRET)
        => (Returned /\ response.code = 401 /\ response.envelope /\ response.status = "error")

C1_Witness ==
    /\ BACKEND_SECRET = Str(s3cret) /\ client_secret = None
    /\ Returned /\ response.code = 401

\* C2 as stated: a 401 is produced only if the configured secret is neither
\* the default nor empty and the header does not match it.
C2_Original ==
    response.code = 401
        => (/\ BACKEND_SECRET # Str(devsecret)
            /\ BACKEND_SECRET # Str(<<>>)
            /\ client_secret # BACKEND_SECRET)

\* C2 amended: a 401 is produced only if the configured secret is not the
\* default and the header does not match it exactly; so a header equal to the
\* configured secret, and any header under the default secret, is never
\* rejected.  An empty configured secret is a secret like any other.
C2_RejectsOnlyMismatch ==
    response.code = 401
        => (BACKEND_SECRET # Str(devsecret) /\ client_secret # BACKEND_SECRET)

\* The empty secret rejects a request that carries no header.
C2_Witness ==
    /\ BACKEND_SECRET = Str(<<>>) /\ client_secret = None
    /\ Returned /\ response = Error(401, "unauthorized")

\* C3 as stated: when the handler has returned and the normalizer made a
\* temporary file, that file is gone and os.remove succeeded exactly once.
\* (Runs in which os.remove itself raised are left out: the handler is allowed
\* to ignore that.)
C3_Original ==
    (Returned /\ NormalizerFiles # {} /\ removed.failed = 0)
        => (NormalizerFiles \cap fs = {} /\ removed.ok = 1)

\* C4 as stated, for the requests that reached the provider dispatch: when
\* the handler has returned, no temporary file made during the request is
\* left.  (Runs in which os.remove raised are left out, as for C3.)
C4_Original ==
    (Dispatched /\ removed.failed = 0) => RequestFiles \cap fs = {}

\* C5 as stated: every response other than the 200 reply is a JSON envelope
\* with status "error" and HTTP status 400, 401 or 500.
C5_Original ==
    (Returned /\ response.code # 200)
        => (response.envelope /\ response.status = "error" /\ response.code \in {400, 401, 500})

\* C6 as stated: with neither credential configured, a body that is an object
\* of the request envelope (every field left out or a string; here without
\* an image) gets HTTP 500 "No AI provider configured".
C6_Original ==
    (/\ Returned /\ data # Unset /\ data.t = "obj"
     /\ ~Truthy(GEMINI_API_KEY) /\ ~Truthy(OPENAI_API_KEY)
     /\ EnvelopeField(data.user_id) /\ EnvelopeField(data.mode)
     /\ EnvelopeField(data.message_text) /\ data.image_base64 = Absent)
        => (/\ response.code = 500
            /\ response.message = "No AI provider configured. Set GEMINI_API_KEY or OPENAI_API_KEY on the server.")

\* C7: at most one provider call is ever made; when the dispatcher has run,
\* the call went to Gemini if its credential is configured, else to OpenAI if
\* its credential is configured, else to nobody, the other provider was not
\* called (also when the chosen one failed), and a 200 reply names the
\* provider that was called.
C7_FixedOrderOneCall ==
    /\ calls.gemini + calls.openai <= 1
    /\ Dispatched =>
        /\ Truthy(GEMINI_API_KEY) => (calls.gemini = 1 /\ calls.openai = 0)
        /\ (~Truthy(GEMINI_API_KEY) /\ Truthy(OPENAI_API_KEY)) => (calls.gemini = 0 /\ calls.openai = 1)
        /\ (~Truthy(GEMINI_API_KEY) /\ ~Truthy(OPENAI_API_KEY)) => (calls.gemini = 0 /\ calls.openai = 0)
        /\ response.code = 200 =>
             \/ response.used_provider = "gemini" /\ calls.gemini = 1
             \/ response.used_provider = "openai" /\ calls.openai = 1

\* Gemini failed while an OpenAI credential was configured: no failover.
C7_Witness ==
    /\ Dispatched /\ Truthy(GEMINI_API_KEY) /\ Truthy(OPENAI_API_KEY)
    /\ response = Error(500, "AI provider error")
    /\ calls.gemini = 1 /\ calls.openai = 0

\* C8 as stated: when the handler has returned for a request that passed the
\* gate and whose image_base64 is a string base64 refuses, the response is
\* HTTP 400, no provider was called and no temporary file exists.
C8_Original ==
    (/\ Returned /\ data # Unset /\ data.t = "obj"
     /\ data.image_base64.t = "str"
     /\ ~b64decode(DecoderInput(data.image_base64.v)).ok)
        => (response.code = 400 /\ calls.gemini + calls.openai = 0 /\ fs = {})

\* C9: the text a provider was called with is message_text (the empty string
\* if left out) when mode is left out or is exactly "auto", and otherwise
\* "[MODE: " + uppercase(mode) + "]\n\n" + message_text.
C9_ProviderText ==
    calls.text # Unset =>
        LET x == IF data.message_text = Absent THEN Str(<<>>) ELSE data.message_text
        IN calls.text =
             IF data.mode = Absent \/ data.mode = Str(<<"a", "u", "t", "o">>) THEN x
             ELSE Str(<<"[", "M", "O", "D", "E", ":", " ">> \o Upper(data.mode.v)
                      \o <<"]", "\n", "\n">> \o x.v)

\* mode "AUTO" is not "auto": the marker is prepended.
C9_Witness ==
    /\ data # Unset /\ data.t = "obj"
    /\ data.mode = Str(<<"A", "U", "T", "O">>) /\ data.message_text = Str(<<"h", "i">>)
    /\ calls.text = Str(<<"[", "M", "O", "D", "E", ":", " ", "A", "U", "T", "O", "]", "\n", "\n", "h", "i">>)

\* C10 as stated: b64decode is called with everything after the first
\* occurrence of "base64," (with the whole string if there is none), and the
\* bytes read back are the decoding of that.
C10_Original ==
    /\ (decoder.arg # Unset) => decoder.arg = Str(AfterFirstMarker(image_b64.v))
    /\ (image_bytes # Unset /\ image_bytes.t = "bytes")
          => image_bytes.v = b64decode(AfterFirstMarker(image_b64.v)).bytes

====
